---- MODULE Spec2Model ----
(***************************************************************************)
(* mutedeck2mqtt (src/main.go): an HTTP webhook handler that publishes a   *)
(* Home Assistant discovery document once per topic and a status message   *)
(* per request, and a subscription callback that re-publishes every stored *)
(* discovery document when Home Assistant announces "online".              *)
(*                                                                         *)
(* Every HTTP request runs in a goroutine of its own (net/http); the       *)
(* subscription callback runs on the MQTT client's goroutine.  The shared  *)
(* state is the two package-level maps and the mutex guarding them.  The   *)
(* broker is the environment: every Publish is appended to `published`,    *)
(* and its token completes with or without an error.                       *)
(***************************************************************************)
EXTENDS Naturals, Sequences, FiniteSets, TLC

\* ---------------------------------------------------------------- bounds

\* The number of HTTP requests served (one goroutine each).
MaxReq == 2
Reqs == 1..MaxReq
\* The goroutine the MQTT client runs the subscription callback on.
Listener == 0

\* ------------------------------------------------------------- constants

object_id == "mutedeck2mqtt_device"
\* HOME_ASSISTANT_DISCOVERY_TOPIC unset.
discovery_prefix == "homeassistant"
requiredKeys == <<"call", "control", "mute", "record", "share", "video">>

\* ------------------------------------------------------------ Go helpers

\* A Go map is a function with a finite domain; reading an absent key gives
\* the zero value.
EmptyMap == [k \in {} |-> FALSE]
MapHas(m, k) == k \in DOMAIN m
MapBool(m, k) == IF k \in DOMAIN m THEN m[k] ELSE FALSE
MapPut(m, k, v) == [x \in (DOMAIN m) \cup {k} |-> IF x = k THEN v ELSE m[x]]

\* strings.HasPrefix
HasPrefix(s, p) == Len(s) >= Len(p) /\ SubSeq(s, 1, Len(p)) = p

\* strings.ReplaceAll(s, old, new) for a one-character old, from the i-th
\* character on.
RECURSIVE ReplaceFrom(_, _, _, _)
ReplaceFrom(s, i, old, new) ==
    IF i > Len(s) THEN ""
    ELSE (IF SubSeq(s, i, i) = old THEN new ELSE SubSeq(s, i, i))
         \o ReplaceFrom(s, i + 1, old, new)
ReplaceAll(s, old, new) == ReplaceFrom(s, 1, old, new)

LowerLetters == "abcdefghijklmnopqrstuvwxyz"
UpperLetters == "ABCDEFGHIJKLMNOPQRSTUVWXYZ"
Digits == "0123456789"
CharsOf(s) == {SubSeq(s, i, i) : i \in 1..Len(s)}
\* unicode.ToUpper and unicode.ToLower on the letters, as tables.
UpperOf ==
    [c \in CharsOf(LowerLetters) |->
        LET i == CHOOSE j \in 1..Len(LowerLetters) : SubSeq(LowerLetters, j, j) = c
        IN  SubSeq(UpperLetters, i, i)]
LowerOf ==
    [c \in CharsOf(UpperLetters) |->
        LET i == CHOOSE j \in 1..Len(UpperLetters) : SubSeq(UpperLetters, j, j) = c
        IN  SubSeq(LowerLetters, i, i)]
WordChars == CharsOf(LowerLetters) \cup CharsOf(UpperLetters) \cup CharsOf(Digits)
ToUpper(c) == IF c \in DOMAIN UpperOf THEN UpperOf[c] ELSE c
ToLower(c) == IF c \in DOMAIN LowerOf THEN LowerOf[c] ELSE c
IsWordChar(c) == c \in WordChars

\* cases.Title(language.English).String: the first letter of every word in
\* upper case, the rest of the word in lower case; a word is a run of
\* letters and digits.  TitleFrom converts from the i-th character on;
\* inWord says whether the previous character was part of a word.
RECURSIVE TitleFrom(_, _, _)
TitleFrom(s, i, inWord) ==
    IF i > Len(s) THEN ""
    ELSE (IF inWord THEN ToLower(SubSeq(s, i, i)) ELSE ToUpper(SubSeq(s, i, i)))
         \o TitleFrom(s, i + 1, IsWordChar(SubSeq(s, i, i)))

toTitleCase(s) ==
    CHOOSE title \in {TitleFrom(spaced, 1, FALSE) : spaced \in {ReplaceAll(s, "_", " ")}} : TRUE

\* Mutant: webex is matched as a prefix.
getPlatformNameByPrefix(input) ==
    CASE HasPrefix(input, "zoom") -> "Zoom"
      [] ~HasPrefix(input, "zoom") /\ HasPrefix(input, "teams") -> "Teams"
      [] ~HasPrefix(input, "zoom") /\ ~HasPrefix(input, "teams")
         /\ HasPrefix(input, "webex") -> "Webex"
      [] OTHER -> toTitleCase(input)

getPlatformName(input) ==
    CASE HasPrefix(input, "zoom") -> "Zoom"
      [] ~HasPrefix(input, "zoom") /\ HasPrefix(input, "teams") -> "Teams"
      [] ~HasPrefix(input, "zoom") /\ ~HasPrefix(input, "teams")
         /\ input = "webex" -> "Webex"
      [] ~HasPrefix(input, "zoom") /\ ~HasPrefix(input, "teams")
         /\ input = "streamyard" -> "StreamYard"
      [] ~HasPrefix(input, "zoom") /\ ~HasPrefix(input, "teams")
         /\ input = "google-meet" -> "Google Meet"
      [] OTHER -> toTitleCase(input)

\* ----------------------------------------------------------- JSON values

\* A decoded JSON value (interface{}): its Go type and its text.
JString(s) == [t |-> "string", s |-> s]
JNumber(s) == [t |-> "float64", s |-> s]
IsString(v) == v.t = "string"

JBool(s) == [t |-> "bool", s |-> s]

\* json.Marshal of a struct of strings never fails; the bytes are kept as
\* the JSON document they encode.
Marshal(v) == [json |-> v]

\* json.Marshal of a string: in quotes, with the quote, the backslash and
\* (HTML escaping is on) <, > and & escaped.
JSONEscapes ==
    ("\"" :> "\\\"") @@ ("\\" :> "\\\\") @@ ("<" :> "\\u003c")
    @@ (">" :> "\\u003e") @@ ("&" :> "\\u0026")
RECURSIVE EscapeFrom(_, _)
EscapeFrom(s, i) ==
    IF i > Len(s) THEN ""
    ELSE (IF SubSeq(s, i, i) \in DOMAIN JSONEscapes
          THEN JSONEscapes[SubSeq(s, i, i)] ELSE SubSeq(s, i, i))
         \o EscapeFrom(s, i + 1)
\* json.Marshal of an interface{} value: a string as above, a float64 or a
\* bool as its text.
MarshalValue(v) ==
    IF IsString(v) THEN "\"" \o EscapeFrom(v.s, 1) \o "\"" ELSE v.s
\* The keys a body can hold, in the byte order json.Marshal sorts map keys by.
KeyOrder == <<"call", "control", "extra", "mute", "record", "share", "video">>
\* json.Marshal of a map[string]interface{}: one member per key, in sorted
\* key order, each value as its JSON text.
MarshalMap(m) ==
    LET keys == SelectSeq(KeyOrder, LAMBDA k : k \in DOMAIN m)
    IN  [json |-> [i \in 1..Len(keys) |->
                      [key |-> keys[i], value |-> MarshalValue(m[keys[i]])]]]

\* ------------------------------------------------------ discovery payload

StateTopic(prefix, topic) == prefix \o "/" \o topic
EntityKey(topic, field) == topic \o "_" \o field

NotActiveTemplate(field) ==
    "{{ value_json." \o field \o " != 'active' and 'OFF' or 'ON' }}"
ActiveTemplate(field) ==
    "{{ value_json." \o field \o " == 'active' and 'OFF' or 'ON' }}"
RawTemplate(field) == "{{ value_json." \o field \o " }}"

ComponentIcon(field) ==
    CASE field = "call" -> "mdi:phone"
      [] field = "control" -> "mdi:application-cog"
      [] field = "mute" -> "mdi:microphone"
      [] field = "record" -> "mdi:record-rec"
      [] field = "share" -> "mdi:monitor-share"
      [] field = "video" -> "mdi:video"
ComponentName(field) ==
    CASE field = "call" -> "Call"
      [] field = "control" -> "Control"
      [] field = "mute" -> "Microphone"
      [] field = "record" -> "Recording"
      [] field = "share" -> "Screen sharing"
      [] field = "video" -> "Video"
\* Mutant: mute uses the same template as the other binary sensors.
ComponentTemplateUniform(field) ==
    CASE field = "control" -> RawTemplate(field)
      [] OTHER -> NotActiveTemplate(field)
ComponentTemplate(field) ==
    CASE field = "control" -> RawTemplate(field)
      [] field = "mute" -> ActiveTemplate(field)
      [] OTHER -> NotActiveTemplate(field)
ControlOptions == <<"Zoom", "Teams", "Google Meet", "StreamYard", "Webex", "System">>

Component(topic, prefix, field) ==
    [cmd_t   |-> "mutedeck2mqtt/no-reply",
     en      |-> TRUE,
     ent_cat |-> "diagnostic",
     icon    |-> ComponentIcon(field),
     name    |-> ComponentName(field),
     obj_id  |-> EntityKey(topic, field),
     opt     |-> FALSE,
     options |-> IF field = "control" THEN ControlOptions ELSE <<>>,
     p       |-> IF field = "control" THEN "select" ELSE "binary_sensor",
     stat_t  |-> StateTopic(prefix, topic),
     uniq_id |-> topic \o "_" \o field \o "_mutedeck2mqtt",
     val_tpl |-> ComponentTemplate(field)]

Fields == {requiredKeys[i] : i \in DOMAIN requiredKeys}
FieldOfKey(topic, key) == CHOOSE f \in Fields : EntityKey(topic, f) = key

DiscoveryPayloadStruct(topic, prefix) ==
    [dev    |-> [ids |-> <<object_id \o "_" \o topic>>,
                 name |-> toTitleCase(topic),
                 mf |-> "MuteDeck",
                 mdl |-> "", sw |-> "", sn |-> "", hw |-> ""],
     o      |-> [name |-> "MuteDeck2MQTT",
                 sw |-> "2024.12.16",
                 url |-> "https://github.com/chelming/mutedeck2mqtt/"],
     cmps   |-> [key \in {EntityKey(topic, f) : f \in Fields} |->
                    Component(topic, prefix, FieldOfKey(topic, key))],
     stat_t |-> StateTopic(prefix, topic),
     qos    |-> 0]

DiscoveryTopic(topic) ==
    discovery_prefix \o "/" \o "device" \o "/" \o object_id \o "_" \o topic \o "/config"

\* ---------------------------------------------------------------- inputs

\* The webhook's body with every required key.
FullBody ==
    [k \in Fields |-> IF k = "control" THEN JString("zoom-meeting")
                      ELSE IF k \in {"call", "video"} THEN JString("active")
                      ELSE JString("inactive")]
Without(body, keys) == [k \in (DOMAIN body) \ keys |-> body[k]]
MissingSets == {{"video"}, {"call", "mute"}, {"control", "share", "video"}}
Bodies == {FullBody} \cup {Without(FullBody, ks) : ks \in MissingSets}

\* r.URL.Query().Get gives "" for a parameter that is absent or empty.
\* A query: the topic and prefix parameters.
Queries == {<<"", "">>, <<"MyRoom", "">>, <<"mutedeck", "office">>}

\* An HTTP request: whether its body is well-formed JSON, the object it
\* decodes to, and its query parameters.
HTTPRequests ==
    {[decodes |-> TRUE, body |-> FullBody, topic |-> q[1], prefix |-> q[2]] :
        q \in Queries}
    \cup {[decodes |-> TRUE, body |-> b, topic |-> "", prefix |-> ""] : b \in Bodies}
    \cup {[decodes |-> FALSE, body |-> EmptyMap, topic |-> "", prefix |-> ""]}
\* A wider choice of requests, for one client that posts them one after
\* another: control values of every kind getPlatformName tells apart, a
\* control that is not a string, keys beyond the required ones, and every
\* combination of an absent, a default and another topic and prefix.
WideControls ==
    {JString(c) : c \in {"zoom", "zoom-meeting", "zoomteams", "teams", "teams_call",
                         "teamszoom", "webex", "webex-app", "streamyard",
                         "streamyard2", "google-meet", "google_meet", "my_app",
                         "Zoom", "ZOOM", "a&b", ""}}
    \cup {JNumber("3"), JBool("true")}
WideBodies ==
    {[FullBody EXCEPT !["control"] = c] : c \in WideControls}
    \cup {MapPut(FullBody, "extra", v) : v \in {JString("zoom-x"), JNumber("1.5")}}
    \cup {Without(FullBody, {"record"})}
WideQueries == {"", "mutedeck", "my_room"} \X {"", "mutedeck2mqtt", "office"}
WideRequests ==
    {[decodes |-> TRUE, body |-> b, topic |-> "", prefix |-> ""] : b \in WideBodies}
    \cup {[decodes |-> TRUE, body |-> FullBody, topic |-> q[1], prefix |-> q[2]] :
            q \in WideQueries}
NoRequest == [decodes |-> FALSE, body |-> EmptyMap, topic |-> "", prefix |-> ""]

\* The payloads Home Assistant publishes on homeassistant/status.
StatusPayloads == {"online", "offline", "Online"}

\* ----------------------------------------------------------------- state

VARIABLES
    discoveryTopics,    \* map[string]bool: discovery topic -> sent
    discoveryMessages,  \* map[string]DiscoveryPayloadStruct
    mu,                 \* sync.Mutex: TRUE when locked
    pc,                 \* where each goroutine is
    request,            \* per handler goroutine: the request it serves
    data,               \* per handler goroutine: the decoded (then normalized) body
    response,           \* per handler goroutine: the HTTP status and body written
    msg,                \* the payload the subscription callback was last called with
    todo,               \* the keys the callback's range loop has yet to visit
    atLock,             \* history: the two maps as they were when the callback took mu
    published           \* per goroutine: its client.Publish calls, in order, with each token's outcome

vars == <<discoveryTopics, discoveryMessages, mu, pc, request, data, response,
          msg, todo, atLock, published>>

cache == <<discoveryTopics, discoveryMessages>>

\* --------------------------------------------------- the handler's locals

\* Mutant: an empty topic parameter gets no default.
TopicAsGiven(r) == request[r].topic
Topic(r) == IF request[r].topic = "" THEN "mutedeck" ELSE request[r].topic
Prefix(r) == IF request[r].prefix = "" THEN "mutedeck2mqtt" ELSE request[r].prefix
discoveryTopic(r) == DiscoveryTopic(Topic(r))
fullTopic(r) == StateTopic(Prefix(r), Topic(r))

\* Mutant: the last absent key is reported.
FirstMissingLast(body) ==
    IF \E i \in DOMAIN requiredKeys : ~MapHas(body, requiredKeys[i])
    THEN requiredKeys[CHOOSE i \in DOMAIN requiredKeys :
            /\ ~MapHas(body, requiredKeys[i])
            /\ \A j \in (i + 1)..Len(requiredKeys) : MapHas(body, requiredKeys[j])]
    ELSE ""

\* The first key of requiredKeys absent from a decoded body, or "" if none.
FirstMissing(body) ==
    IF \E i \in DOMAIN requiredKeys : ~MapHas(body, requiredKeys[i])
    THEN requiredKeys[CHOOSE i \in DOMAIN requiredKeys :
            /\ ~MapHas(body, requiredKeys[i])
            /\ \A j \in 1..(i - 1) : MapHas(body, requiredKeys[j])]
    ELSE ""

\* Mutant: only the required keys are kept.
NormalizeKeepsRequired(body) ==
    IF IsString(body["control"])
    THEN [k \in Fields |-> IF k = "control"
                           THEN JString(getPlatformName(body["control"].s))
                           ELSE body[k]]
    ELSE [k \in Fields |-> body[k]]

\* data["control"] = getPlatformName(control) when control is a string.
Normalize(body) ==
    IF IsString(body["control"])
    THEN [body EXCEPT !["control"] = JString(getPlatformName(body["control"].s))]
    ELSE body

\* ------------------------------------------------------------- the broker

\* client.Publish(topic, 0, false, payload): the call is logged, under the
\* goroutine that made it, with a pending token.
Publish(by, topic, payload) ==
    [published EXCEPT ![by] = Append(@, [topic |-> topic, payload |-> payload,
                                         result |-> "pending"])]
\* The token a goroutine is waiting on: that of its latest Publish.
Token(by) == Len(published[by])
\* token.Wait() returns; token.Error() is nil ("ok") or not ("failed").
Complete(by, result) == [published EXCEPT ![by][Token(by)].result = result]

\* --------------------------------------------------------------- the lock

\* Mutant: no mutual exclusion.
CanLockAlways == TRUE
\* mu.Lock() returns only when the mutex is free.
CanLock == ~mu

\* ------------------------------------------------------------------ Init

Init ==
    /\ discoveryTopics = EmptyMap
    /\ discoveryMessages = EmptyMap
    /\ mu = FALSE
    /\ pc = [p \in Reqs \cup {Listener} |-> "idle"]
    /\ request = [r \in Reqs |-> NoRequest]
    /\ data = [r \in Reqs |-> EmptyMap]
    /\ response = [r \in Reqs |-> [code |-> 0, text |-> ""]]
    /\ msg = ""
    /\ todo = {}
    /\ atLock = <<EmptyMap, EmptyMap>>
    /\ published = [p \in Reqs \cup {Listener} |-> <<>>]

\* ----------------------------------------------------- the HTTP handler

\* http.Error(w, text, code) followed by return, or w.WriteHeader(200).
Respond(r, code, text) ==
    /\ response' = [response EXCEPT ![r] = [code |-> code, text |-> text]]
    /\ pc' = [pc EXCEPT ![r] = "done"]

\* Lines 219-269: read and decode the body, validate the required keys,
\* normalize control, resolve topic and prefix.  Handler goroutines are
\* numbered in the order their requests arrive.
ReqReceive(r, in) ==
    /\ pc[r] = "idle"
    /\ \A q \in 1..(r - 1) : pc[q] # "idle"
    /\ request' = [request EXCEPT ![r] = in]
    /\ IF ~in.decodes
       THEN /\ Respond(r, 400, "invalid JSON")
            /\ UNCHANGED data
       ELSE IF FirstMissing(in.body) # ""
       THEN /\ Respond(r, 400, "Missing required key: " \o FirstMissing(in.body))
            /\ data' = [data EXCEPT ![r] = in.body]
       ELSE /\ data' = [data EXCEPT ![r] = Normalize(in.body)]
            /\ pc' = [pc EXCEPT ![r] = "lock"]
            /\ UNCHANGED response
    /\ UNCHANGED <<cache, mu, msg, todo, atLock, published>>

\* Mutant: a request for a topic already sent stores its own document.
ReqSkipDiscoveryStoresAgain(r) ==
    /\ pc[r] = "lock"
    /\ CanLock
    /\ MapBool(discoveryTopics, discoveryTopic(r))
    /\ discoveryMessages' = MapPut(discoveryMessages, discoveryTopic(r),
                                   DiscoveryPayloadStruct(Topic(r), Prefix(r)))
    /\ pc' = [pc EXCEPT ![r] = "status"]
    /\ UNCHANGED <<discoveryTopics, mu, request, data, response, msg, todo, atLock,
                   published>>

\* Mutant: the sent flag is not looked at.
ReqSkipDiscoveryUnchecked(r) ==
    /\ pc[r] = "lock"
    /\ CanLock
    /\ pc' = [pc EXCEPT ![r] = "status"]
    /\ UNCHANGED <<cache, mu, request, data, response, msg, todo, atLock, published>>

\* Lines 270-271, 399: mu.Lock(); the topic is already marked sent;
\* mu.Unlock().  Nothing else runs between the three.
ReqSkipDiscovery(r) ==
    /\ pc[r] = "lock"
    /\ CanLock
    /\ MapBool(discoveryTopics, discoveryTopic(r))
    /\ pc' = [pc EXCEPT ![r] = "status"]
    /\ UNCHANGED <<cache, mu, request, data, response, msg, todo, atLock, published>>

\* Lines 270-382: mu.Lock(); the topic is not marked sent: build the
\* discovery payload, marshal it and publish it.
ReqPublishDiscovery(r) ==
    /\ pc[r] = "lock"
    /\ CanLock
    /\ ~MapBool(discoveryTopics, discoveryTopic(r))
    /\ mu' = TRUE
    /\ published' = Publish(r, discoveryTopic(r),
                            Marshal(DiscoveryPayloadStruct(Topic(r), Prefix(r))))
    /\ pc' = [pc EXCEPT ![r] = "discovery"]
    /\ UNCHANGED <<cache, request, data, response, msg, todo, atLock>>

\* Mutant: the return after a failed discovery publish is missing.
ReqDiscoveryFailedContinues(r) ==
    /\ pc[r] = "discovery"
    /\ published' = Complete(r, "failed")
    /\ response' = [response EXCEPT ![r] = [code |-> 500, text |-> "publish failed"]]
    /\ pc' = [pc EXCEPT ![r] = "status"]
    /\ mu' = FALSE
    /\ UNCHANGED <<cache, request, data, msg, todo, atLock>>

\* Mutant: the topic is marked sent before the token's error is looked at.
ReqDiscoveryFailedMarks(r) ==
    /\ pc[r] = "discovery"
    /\ published' = Complete(r, "failed")
    /\ Respond(r, 500, "publish failed")
    /\ discoveryTopics' = MapPut(discoveryTopics, discoveryTopic(r), TRUE)
    /\ mu' = FALSE
    /\ UNCHANGED <<discoveryMessages, request, data, msg, todo, atLock>>

\* Mutant: the return after a failed discovery publish leaves mu locked.
ReqDiscoveryFailedKeepsLock(r) ==
    /\ pc[r] = "discovery"
    /\ published' = Complete(r, "failed")
    /\ Respond(r, 500, "publish failed")
    /\ UNCHANGED <<cache, mu, request, data, msg, todo, atLock>>

\* Mutant: the document is stored although its publish failed.
ReqDiscoveryFailedStores(r) ==
    /\ pc[r] = "discovery"
    /\ published' = Complete(r, "failed")
    /\ Respond(r, 500, "publish failed")
    /\ discoveryMessages' = MapPut(discoveryMessages, discoveryTopic(r),
                                   DiscoveryPayloadStruct(Topic(r), Prefix(r)))
    /\ mu' = FALSE
    /\ UNCHANGED <<discoveryTopics, request, data, msg, todo, atLock>>

\* Lines 383-389: the token has an error: answer 500, mu.Unlock(), return.
ReqDiscoveryFailed(r) ==
    /\ pc[r] = "discovery"
    /\ published' = Complete(r, "failed")
    /\ Respond(r, 500, "publish failed")
    /\ mu' = FALSE
    /\ UNCHANGED <<cache, request, data, msg, todo, atLock>>

\* Mutant: the mutex is released before the document is stored.
ReqMarkSentUnlocksEarly(r) ==
    /\ pc[r] = "discovery"
    /\ published' = Complete(r, "ok")
    /\ discoveryTopics' = MapPut(discoveryTopics, discoveryTopic(r), TRUE)
    /\ mu' = FALSE
    /\ pc' = [pc EXCEPT ![r] = "store"]
    /\ UNCHANGED <<discoveryMessages, request, data, response, msg, todo, atLock>>

\* Mutant: a successful discovery publish is not marked.
ReqMarkSentForgets(r) ==
    /\ pc[r] = "discovery"
    /\ published' = Complete(r, "ok")
    /\ pc' = [pc EXCEPT ![r] = "store"]
    /\ UNCHANGED <<cache, mu, request, data, response, msg, todo, atLock>>

\* Lines 383-393: the token has no error: discoveryTopics[discoveryTopic] = true.
ReqMarkSent(r) ==
    /\ pc[r] = "discovery"
    /\ published' = Complete(r, "ok")
    /\ discoveryTopics' = MapPut(discoveryTopics, discoveryTopic(r), TRUE)
    /\ pc' = [pc EXCEPT ![r] = "store"]
    /\ UNCHANGED <<discoveryMessages, mu, request, data, response, msg, todo, atLock>>

\* Mutant: the stored document is built for the default prefix.
ReqStoreMessageDefaultPrefix(r) ==
    /\ pc[r] = "store"
    /\ discoveryMessages' = MapPut(discoveryMessages, discoveryTopic(r),
                                   DiscoveryPayloadStruct(Topic(r), "mutedeck2mqtt"))
    /\ mu' = FALSE
    /\ pc' = [pc EXCEPT ![r] = "status"]
    /\ UNCHANGED <<discoveryTopics, request, data, response, msg, todo, atLock, published>>

\* Mutant: storing a document evicts the others.
ReqStoreMessageEvicts(r) ==
    /\ pc[r] = "store"
    /\ discoveryMessages' = MapPut(EmptyMap, discoveryTopic(r),
                                   DiscoveryPayloadStruct(Topic(r), Prefix(r)))
    /\ mu' = FALSE
    /\ pc' = [pc EXCEPT ![r] = "status"]
    /\ UNCHANGED <<discoveryTopics, request, data, response, msg, todo, atLock, published>>

\* Lines 394-399: discoveryMessages[discoveryTopic] = discoveryPayload, the
\* two-second sleep, mu.Unlock().
ReqStoreMessage(r) ==
    /\ pc[r] = "store"
    /\ discoveryMessages' = MapPut(discoveryMessages, discoveryTopic(r),
                                   DiscoveryPayloadStruct(Topic(r), Prefix(r)))
    /\ mu' = FALSE
    /\ pc' = [pc EXCEPT ![r] = "status"]
    /\ UNCHANGED <<discoveryTopics, request, data, response, msg, todo, atLock, published>>

\* Lines 401-413: marshal the data and publish it to {prefix}/{topic}.
ReqPublishStatus(r) ==
    /\ pc[r] = "status"
    /\ published' = Publish(r, fullTopic(r), MarshalMap(data[r]))
    /\ pc' = [pc EXCEPT ![r] = "publishing"]
    /\ UNCHANGED <<cache, mu, request, data, response, msg, todo, atLock>>

\* Mutant: a failed status publish unmarks the topic.
ReqStatusFailedRollsBack(r) ==
    /\ pc[r] = "publishing"
    /\ published' = Complete(r, "failed")
    /\ Respond(r, 500, "publish failed")
    /\ discoveryTopics' = MapPut(discoveryTopics, discoveryTopic(r), FALSE)
    /\ UNCHANGED <<discoveryMessages, mu, request, data, msg, todo, atLock>>

\* Lines 414-419: the token has an error: answer 500.
ReqStatusFailed(r) ==
    /\ pc[r] = "publishing"
    /\ published' = Complete(r, "failed")
    /\ Respond(r, 500, "publish failed")
    /\ UNCHANGED <<cache, mu, request, data, msg, todo, atLock>>

\* Lines 414-424: the token has no error: answer 200.
ReqStatusSent(r) ==
    /\ pc[r] = "publishing"
    /\ published' = Complete(r, "ok")
    /\ Respond(r, 200, "")
    /\ UNCHANGED <<cache, mu, request, data, msg, todo, atLock>>

\* ------------------------------------------- the subscription callback

\* Mutant: every payload calls resendDiscoveryMessages.
OnStatusMessageAny(payload) ==
    /\ pc[Listener] = "idle"
    /\ msg' = payload
    /\ pc' = [pc EXCEPT ![Listener] = "lock"]
    /\ UNCHANGED <<cache, mu, request, data, response, todo, atLock, published>>

\* Lines 211-216: a message on homeassistant/status.  The client calls the
\* callback for one message at a time; only "online" calls
\* resendDiscoveryMessages.
OnStatusMessage(payload) ==
    /\ pc[Listener] = "idle"
    /\ msg' = payload
    /\ pc' = [pc EXCEPT ![Listener] = IF payload = "online" THEN "lock" ELSE "idle"]
    /\ UNCHANGED <<cache, mu, request, data, response, todo, atLock, published>>

\* Lines 438-440: mu.Lock(), and the range over discoveryMessages begins.
ResendLock ==
    /\ pc[Listener] = "lock"
    /\ CanLock
    /\ mu' = TRUE
    /\ todo' = DOMAIN discoveryMessages
    /\ atLock' = cache
    /\ pc' = [pc EXCEPT ![Listener] = "loop"]
    /\ UNCHANGED <<cache, request, data, response, msg, published>>

\* Lines 440-447: the loop visits one more entry, in no particular order:
\* marshal its payload and publish it.
ResendPublish(topic) ==
    /\ pc[Listener] = "loop"
    /\ topic \in todo
    /\ todo' = todo \ {topic}
    /\ published' = Publish(Listener, topic, Marshal(discoveryMessages[topic]))
    /\ pc' = [pc EXCEPT ![Listener] = "resending"]
    /\ UNCHANGED <<cache, mu, request, data, response, msg, atLock>>

\* Mutant: a failed publish makes resendDiscoveryMessages return.
ResendCompletedReturns(result) ==
    /\ pc[Listener] = "resending"
    /\ IF result = "failed"
       THEN /\ mu' = FALSE
            /\ pc' = [pc EXCEPT ![Listener] = "idle"]
            /\ atLock' = <<EmptyMap, EmptyMap>>
            /\ todo' = {}
            /\ published' = [published EXCEPT ![Listener] = <<>>]
       ELSE /\ published' = Complete(Listener, result)
            /\ pc' = [pc EXCEPT ![Listener] = "loop"]
            /\ UNCHANGED <<mu, todo, atLock>>
    /\ UNCHANGED <<cache, request, data, response, msg>>

\* Mutant: a failed publish ends the loop.
ResendCompletedBreaks(result) ==
    /\ pc[Listener] = "resending"
    /\ published' = Complete(Listener, result)
    /\ todo' = IF result = "failed" THEN {} ELSE todo
    /\ pc' = [pc EXCEPT ![Listener] = "loop"]
    /\ UNCHANGED <<cache, mu, request, data, response, msg, atLock>>

\* Lines 448-455: the token completes, with an error (logged, continue) or
\* without (logged).
ResendCompleted(result) ==
    /\ pc[Listener] = "resending"
    /\ published' = Complete(Listener, result)
    /\ pc' = [pc EXCEPT ![Listener] = "loop"]
    /\ UNCHANGED <<cache, mu, request, data, response, msg, todo, atLock>>

\* Mutant: the replay resets the sent flags.
ResendReturnResets ==
    /\ pc[Listener] = "loop"
    /\ todo = {}
    /\ mu' = FALSE
    /\ pc' = [pc EXCEPT ![Listener] = "idle"]
    /\ atLock' = <<EmptyMap, EmptyMap>>
    /\ discoveryTopics' = [k \in DOMAIN discoveryTopics |-> FALSE]
    /\ published' = [published EXCEPT ![Listener] = <<>>]
    /\ UNCHANGED <<discoveryMessages, request, data, response, msg, todo>>

\* Lines 439, 456: the loop is over; the deferred mu.Unlock() runs.  The log
\* of the callback's publishes and atLock describe one call of
\* resendDiscoveryMessages, and are cleared when it returns.
ResendReturn ==
    /\ pc[Listener] = "loop"
    /\ todo = {}
    /\ mu' = FALSE
    /\ pc' = [pc EXCEPT ![Listener] = "idle"]
    /\ atLock' = <<EmptyMap, EmptyMap>>
    /\ published' = [published EXCEPT ![Listener] = <<>>]
    /\ UNCHANGED <<cache, request, data, response, msg, todo>>

\* ------------------------------------------------------------------ Next

Receive == \E r \in Reqs : \E in \in HTTPRequests : ReqReceive(r, in)
SkipDiscovery == \E r \in Reqs : ReqSkipDiscovery(r)
PublishDiscovery == \E r \in Reqs : ReqPublishDiscovery(r)
DiscoveryFailed == \E r \in Reqs : ReqDiscoveryFailed(r)
MarkSent == \E r \in Reqs : ReqMarkSent(r)
StoreMessage == \E r \in Reqs : ReqStoreMessage(r)
PublishStatus == \E r \in Reqs : ReqPublishStatus(r)
StatusFailed == \E r \in Reqs : ReqStatusFailed(r)
StatusSent == \E r \in Reqs : ReqStatusSent(r)
StatusMessage == \E payload \in StatusPayloads : OnStatusMessage(payload)
Resend == \E topic \in todo : ResendPublish(topic)
ResendDone == \E result \in {"ok", "failed"} : ResendCompleted(result)

Next ==
    \/ Receive
    \/ SkipDiscovery
    \/ PublishDiscovery
    \/ DiscoveryFailed
    \/ MarkSent
    \/ StoreMessage
    \/ PublishStatus
    \/ StatusFailed
    \/ StatusSent
    \/ StatusMessage
    \/ ResendLock
    \/ Resend
    \/ ResendDone
    \/ ResendReturn

Spec == Init /\ [][Next]_vars

\* ------------------------------------------- a server that keeps serving

\* Line 434: http.ListenAndServe keeps accepting requests.  A handler that
\* has returned is over; its number, and its log, serve a later request.
ReqReturn(r) ==
    /\ pc[r] = "done"
    /\ pc' = [pc EXCEPT ![r] = "idle"]
    /\ request' = [request EXCEPT ![r] = NoRequest]
    /\ data' = [data EXCEPT ![r] = EmptyMap]
    /\ response' = [response EXCEPT ![r] = [code |-> 0, text |-> ""]]
    /\ published' = [published EXCEPT ![r] = <<>>]
    /\ UNCHANGED <<cache, mu, msg, todo, atLock>>

Return == \E r \in Reqs : ReqReturn(r)

NextLive == Next \/ Return

Topics == {"mutedeck", "MyRoom"}
\* The requests with a valid body for a topic.
RequestsFor(topic) ==
    {in \in HTTPRequests :
        /\ in.decodes
        /\ FirstMissing(in.body) = ""
        /\ (IF in.topic = "" THEN "mutedeck" ELSE in.topic) = topic}

\* Every goroutine that can run does run; sync.Mutex hands the lock to a
\* waiter that keeps waiting (starvation mode); every token completes.
\* Assumed of the environment: valid requests for each topic keep arriving,
\* and the broker does not fail a topic's discovery publish for ever.
Fairness ==
    /\ \A r \in Reqs :
          /\ SF_vars(ReqSkipDiscovery(r) \/ ReqPublishDiscovery(r))
          /\ WF_vars(\/ ReqDiscoveryFailed(r) \/ ReqMarkSent(r)
                     \/ ReqStoreMessage(r)
                     \/ ReqPublishStatus(r)
                     \/ ReqStatusFailed(r) \/ ReqStatusSent(r)
                     \/ ReqReturn(r))
    /\ SF_vars(ResendLock)
    /\ WF_vars(Resend \/ ResendDone \/ ResendReturn)
    /\ \A topic \in Topics :
          /\ SF_vars(\E r \in Reqs :
                       pc[r] = "idle" /\ \E in \in RequestsFor(topic) : ReqReceive(r, in))
          /\ SF_vars(\E r \in Reqs : Topic(r) = topic /\ ReqMarkSent(r))

LiveSpec == Init /\ [][NextLive]_vars /\ Fairness

\* ------------------------------------------------- a replay that goes on

\* The callback's goroutine, once it holds the mutex, keeps running, and
\* every token it waits on completes.
ReplayFairness == WF_vars(Resend \/ ResendDone \/ ResendReturn)

ReplaySpec == Spec /\ ReplayFairness

\* --------------------------------------------- goroutines that all go on

\* Every handler goroutine keeps running and every token it waits on
\* completes; a goroutine that waits in mu.Lock() gets the mutex if it is
\* released again and again (sync.Mutex hands it to a starving waiter).
HandlerFairness ==
    \A r \in Reqs :
        /\ SF_vars(ReqSkipDiscovery(r) \/ ReqPublishDiscovery(r))
        /\ WF_vars(\/ ReqDiscoveryFailed(r) \/ ReqMarkSent(r)
                   \/ ReqStoreMessage(r)
                   \/ ReqPublishStatus(r)
                   \/ ReqStatusFailed(r) \/ ReqStatusSent(r))

FairSpec == Spec /\ HandlerFairness /\ SF_vars(ResendLock) /\ ReplayFairness

\* -------------------------------------- one client, one request at a time

\* The handler serving one request after another, each drawn from
\* WideRequests; no status message arrives.
NextSerial ==
    \/ \E in \in WideRequests : ReqReceive(1, in)
    \/ ReqSkipDiscovery(1)
    \/ ReqPublishDiscovery(1)
    \/ ReqDiscoveryFailed(1)
    \/ ReqMarkSent(1)
    \/ ReqStoreMessage(1)
    \/ ReqPublishStatus(1)
    \/ ReqStatusFailed(1)
    \/ ReqStatusSent(1)
    \/ ReqReturn(1)

SerialSpec == Init /\ [][NextSerial]_vars

\* ============================================================ properties

Goroutines == Reqs \cup {Listener}
\* A Publish call: the goroutine that made it and its place in that
\* goroutine's log.
Calls == UNION {{<<p, i>> : i \in DOMAIN published[p]} : p \in Goroutines}
Call(c) == published[c[1]][c[2]]
CallsTo(topic) == {c \in Calls : Call(c).topic = topic}
HandlerCalls == {c \in Calls : c[1] \in Reqs}
\* The discovery publishes made by request handlers.
HandlerDiscoveryCalls == {c \in HandlerCalls : Call(c).topic = discoveryTopic(c[1])}

Received(r) == pc[r] # "idle"
\* The request's body decodes and holds every required key.
Valid(r) ==
    /\ Received(r)
    /\ request[r].decodes
    /\ \A k \in Fields : k \in DOMAIN request[r].body

\* C1: when every publish succeeds and no status message has been delivered,
\* once N >= 2 valid requests with the same topic and prefix have all been
\* answered, exactly one publish to the topic's discovery topic and exactly
\* N publishes to {prefix}/{topic} have been made.
C1_OneDiscoveryNStatus ==
    LET S == {r \in Reqs : Received(r)}
    IN  ( /\ Cardinality(S) >= 2
          /\ msg = ""
          /\ \A r \in S : pc[r] = "done" /\ Valid(r)
          /\ \A r, q \in S : Topic(r) = Topic(q) /\ Prefix(r) = Prefix(q)
          /\ \A c \in Calls : Call(c).result = "ok" )
        => \A r \in S :
              /\ Cardinality(CallsTo(discoveryTopic(r))) = 1
              /\ Cardinality(CallsTo(fullTopic(r))) = Cardinality(S)

C1_Witness ==
    /\ \A r \in Reqs : pc[r] = "done" /\ Valid(r) /\ response[r].code = 200
    /\ \A r, q \in Reqs : Topic(r) = Topic(q) /\ Prefix(r) = Prefix(q)
    /\ msg = ""

\* C2: per discovery topic at most one handler's discovery publish is
\* pending or has succeeded, and while a handler's discovery publish is in
\* flight its topic is not marked sent.
C2_AtMostOneDiscovery ==
    /\ \A c, d \in HandlerDiscoveryCalls :
          ( /\ Call(c).topic = Call(d).topic
            /\ Call(c).result # "failed"
            /\ Call(d).result # "failed" ) => c = d
    /\ \A r \in Reqs :
          pc[r] = "discovery" => ~MapBool(discoveryTopics, discoveryTopic(r))

\* Two concurrent first requests for one topic: one has published and
\* marked, the other still waits for the mutex.
C2_Witness ==
    \E r, q \in Reqs :
        /\ r # q
        /\ discoveryTopic(r) = discoveryTopic(q)
        /\ pc[r] = "store"
        /\ pc[q] = "lock"
        /\ published[q] = <<>>

\* C3: while resendDiscoveryMessages runs, the topics it has published to
\* and those it has yet to visit are together exactly the topics that were
\* marked sent when it took the mutex, each published at most once; so at
\* the end of the loop every such topic has been published once and no
\* other.  Outside a run the callback has published nothing, and a run is
\* under way only for the payload "online".
InReplay == pc[Listener] \in {"loop", "resending"}
Resent == {published[Listener][i].topic : i \in DOMAIN published[Listener]}
SentAtLock == {k \in DOMAIN atLock[1] : atLock[1][k]}
C3_ReplayPublishesEverySentKey ==
    /\ InReplay =>
          /\ msg = "online"
          /\ Resent \cup todo = SentAtLock
          /\ Resent \cap todo = {}
          /\ Len(published[Listener]) = Cardinality(Resent)
    /\ ~InReplay => published[Listener] = <<>>

C3_Witness ==
    /\ pc[Listener] = "loop"
    /\ todo = {}
    /\ Cardinality(SentAtLock) = 2
    /\ Len(published[Listener]) = 2

\* The outcome of a handler's discovery publish: "none" if it made none.
HasDiscovery(r) ==
    Len(published[r]) >= 1 /\ published[r][1].topic = discoveryTopic(r)
DiscoveryResult(r) == IF HasDiscovery(r) THEN published[r][1].result ELSE "none"
\* The handler's status publish, if it made one, is its last call.
HasStatus(r) ==
    Len(published[r]) >= 1 /\ published[r][Len(published[r])].topic = fullTopic(r)
StatusResult(r) ==
    IF HasStatus(r) THEN published[r][Len(published[r])].result ELSE "none"
Marked(key) == MapBool(discoveryTopics, key)
Stored(key) == MapHas(discoveryMessages, key)

\* C4: the step in which a handler's discovery publish fails answers 500,
\* ends the request and leaves the topic unmarked and without a stored
\* document; a handler whose discovery publish failed makes no other
\* publish; and no step of a handler whose discovery publish has not
\* succeeded changes either map.
C4_FailedDiscoveryStep(r) ==
    (DiscoveryResult(r) = "pending" /\ DiscoveryResult(r)' = "failed") =>
        /\ pc'[r] = "done"
        /\ response'[r].code = 500
        /\ ~Marked(discoveryTopic(r))'
        /\ ~Stored(discoveryTopic(r))'
C4_FailedDiscoveryLeavesNoTrace ==
    [][\A r \in Reqs :
          /\ C4_FailedDiscoveryStep(r)
          /\ DiscoveryResult(r)' = "failed" =>
                (pc'[r] = "done" /\ response'[r].code = 500 /\ Len(published'[r]) = 1)
          /\ (pc'[r] # pc[r] /\ DiscoveryResult(r)' # "ok") => cache' = cache]_vars

C4_Witness ==
    \E r \in Reqs :
        /\ DiscoveryResult(r) = "failed"
        /\ response[r].code = 500
        /\ ~Marked(discoveryTopic(r))
        /\ ~Stored(discoveryTopic(r))

\* C5: a handler that takes the mutex while its topic is unmarked publishes
\* discovery, and one that finds it marked publishes none; a failed
\* discovery publish leaves the topic unmarked and a successful one marks
\* it; a marked topic stays marked; a status publish is issued only for a
\* marked topic, after the handler's own successful discovery publish or
\* after none.  And with requests for each topic arriving again and again
\* and the broker not failing for ever, every topic is eventually marked.
C5_HandlerStep(r) ==
    /\ (pc[r] = "lock" /\ pc'[r] # "lock") =>
          IF Marked(discoveryTopic(r))
          THEN pc'[r] = "status" /\ published'[r] = <<>>
          ELSE /\ pc'[r] = "discovery"
               /\ Len(published'[r]) = 1
               /\ DiscoveryResult(r)' = "pending"
    /\ (DiscoveryResult(r) = "pending" /\ DiscoveryResult(r)' = "failed") =>
          ~Marked(discoveryTopic(r))'
    /\ (DiscoveryResult(r) = "pending" /\ DiscoveryResult(r)' = "ok") =>
          Marked(discoveryTopic(r))'
    /\ (pc[r] = "status" /\ pc'[r] = "publishing") =>
          /\ Marked(discoveryTopic(r))
          /\ DiscoveryResult(r) \in {"none", "ok"}
          /\ StatusResult(r)' = "pending"
C5_Safety ==
    [][/\ \A r \in Reqs : C5_HandlerStep(r)
       /\ \A topic \in Topics :
             Marked(DiscoveryTopic(topic)) => Marked(DiscoveryTopic(topic))']_vars
C5_RetryUntilSent ==
    /\ C5_Safety
    /\ \A topic \in Topics : <>Marked(DiscoveryTopic(topic))

\* A request retried the discovery publish another request had failed.
C5_Witness ==
    \E r, q \in Reqs :
        /\ discoveryTopic(r) = discoveryTopic(q)
        /\ DiscoveryResult(r) = "failed"
        /\ DiscoveryResult(q) = "ok"
        /\ Marked(discoveryTopic(q))

\* C6: a handler whose discovery publish succeeded and whose status publish
\* failed has answered 500; its topic is still marked sent and the stored
\* document is the one it published; no other handler has a discovery
\* publish for that topic pending or succeeded, and none can start one.
C6_StatusFailureKeepsDiscovery ==
    \A r \in Reqs :
        (DiscoveryResult(r) = "ok" /\ Len(published[r]) = 2 /\ StatusResult(r) = "failed") =>
            /\ pc[r] = "done"
            /\ response[r].code = 500
            /\ Marked(discoveryTopic(r))
            /\ Stored(discoveryTopic(r))
            /\ Marshal(discoveryMessages[discoveryTopic(r)]) = published[r][1].payload
            /\ \A q \in Reqs \ {r} :
                  discoveryTopic(q) = discoveryTopic(r) =>
                      /\ DiscoveryResult(q) \in {"none", "failed"}
                      /\ ~ENABLED ReqPublishDiscovery(q)

\* A later request for the topic went straight to its status publish.
C6_Witness ==
    \E r, q \in Reqs :
        /\ r # q
        /\ discoveryTopic(r) = discoveryTopic(q)
        /\ DiscoveryResult(r) = "ok" /\ Len(published[r]) = 2 /\ StatusResult(r) = "failed"
        /\ response[r].code = 500
        /\ pc[q] = "done" /\ Len(published[q]) = 1 /\ StatusResult(q) = "ok"

\* C7: a request whose decoded body lacks a required key is answered, in the
\* step that receives it, with 400 and the text naming the first absent key
\* in the order call, control, mute, record, share, video; that step makes
\* no publish and changes neither map, and the request never publishes.
ExpectedMissing(body) ==
    IF "call" \notin DOMAIN body THEN "call"
    ELSE IF "control" \notin DOMAIN body THEN "control"
    ELSE IF "mute" \notin DOMAIN body THEN "mute"
    ELSE IF "record" \notin DOMAIN body THEN "record"
    ELSE IF "share" \notin DOMAIN body THEN "share"
    ELSE IF "video" \notin DOMAIN body THEN "video"
    ELSE ""
Incomplete(r) ==
    Received(r) /\ request[r].decodes /\ ExpectedMissing(request[r].body) # ""
C7_MissingKeyRejected ==
    [][\A r \in Reqs :
          /\ Incomplete(r)' =>
                /\ pc'[r] = "done"
                /\ response'[r] =
                      [code |-> 400,
                       text |-> "Missing required key: "
                                \o ExpectedMissing(request'[r].body)]
                /\ published'[r] = <<>>
          /\ (~Received(r) /\ Incomplete(r)') =>
                (published' = published /\ cache' = cache)]_vars

C7_Witness ==
    \E r \in Reqs :
        /\ pc[r] = "done"
        /\ request[r].decodes
        /\ DOMAIN request[r].body = Fields \ {"call", "mute"}
        /\ response[r] = [code |-> 400, text |-> "Missing required key: call"]

\* C8: at most one goroutine is inside a critical section (a handler between
\* taking the mutex for an unmarked topic and releasing it, the callback
\* between taking it and returning), and the mutex is locked exactly when
\* one is.
InCS(p) ==
    IF p = Listener THEN pc[p] \in {"loop", "resending"}
    ELSE pc[p] \in {"discovery", "store"}
C8_MutualExclusion ==
    /\ Cardinality({p \in Goroutines : InCS(p)}) <= 1
    /\ mu <=> \E p \in Goroutines : InCS(p)

\* A handler holds the mutex while another handler, for another topic, and
\* the callback wait for it.
C8_Witness ==
    \E r, q \in Reqs :
        /\ pc[r] = "discovery"
        /\ pc[q] = "lock"
        /\ Topic(r) # Topic(q)
        /\ pc[Listener] = "lock"

\* C9: no step of the subscription callback changes either map, and while
\* resendDiscoveryMessages runs both maps are as they were when it took the
\* mutex.
ListenerStep ==
    \/ pc'[Listener] # pc[Listener]
    \/ published'[Listener] # published[Listener]
    \/ msg' # msg
    \/ todo' # todo
C9_ReplayLeavesCache ==
    [][/\ ListenerStep => cache' = cache
       /\ InReplay' => cache' = atLock']_vars

\* A replay has reached the end of its loop with one publish failed and one
\* succeeded.
C9_Witness ==
    /\ pc[Listener] = "loop"
    /\ todo = {}
    /\ \E i, j \in DOMAIN published[Listener] :
          /\ published[Listener][i].result = "failed"
          /\ published[Listener][j].result = "ok"
    /\ cache = atLock
    /\ \A k \in DOMAIN discoveryTopics : discoveryTopics[k]

\* C10: the callback is past its payload test only for the payload
\* "online"; and whenever a message can be delivered, delivering "online"
\* always takes the callback to resendDiscoveryMessages, while delivering
\* any other payload leaves the callback idle and changes neither the maps
\* nor the publishes.
C10_OnlyOnlineReplays ==
    /\ pc[Listener] # "idle" => msg = "online"
    /\ pc[Listener] = "idle" =>
          \A payload \in StatusPayloads :
              /\ ENABLED OnStatusMessage(payload)
              /\ IF payload = "online"
                 THEN ~ENABLED (OnStatusMessage(payload) /\ pc'[Listener] # "lock")
                 ELSE ~ENABLED (/\ OnStatusMessage(payload)
                                /\ \/ pc'[Listener] # "idle"
                                   \/ cache' # cache
                                   \/ published' # published)

\* An "online" has been answered by a replay of a stored document, and the
\* callback is ready for the message that follows it.
C10_Witness ==
    /\ pc[Listener] = "idle"
    /\ msg = "online"
    /\ DOMAIN discoveryMessages # {}

\* C11: every publish of a request handler goes to the discovery key
\* homeassistant/device/mutedeck2mqtt_device_{Topic}/config or to the status
\* channel {RoutingPrefix}/{Topic}, where Topic is the topic parameter or
\* "mutedeck" and RoutingPrefix the prefix parameter or "mutedeck2mqtt" when
\* empty; the discovery publish is the handler's first call to the former,
\* the status publish its last call to the latter; the sent flag a handler
\* tests and sets is the one under that key, so a request without topic and
\* one with topic=mutedeck use the same flag.
ParamOr(value, default) == IF value = "" THEN default ELSE value
ExpectedTopic(r) == ParamOr(request[r].topic, "mutedeck")
ExpectedKey(r) ==
    "homeassistant/device/mutedeck2mqtt_device_" \o ExpectedTopic(r) \o "/config"
ExpectedChannel(r) ==
    ParamOr(request[r].prefix, "mutedeck2mqtt") \o "/" \o ExpectedTopic(r)
C11_TopicAndPrefixDefaults ==
    /\ \A r \in Reqs :
          /\ \A i \in DOMAIN published[r] :
                published[r][i].topic \in {ExpectedKey(r), ExpectedChannel(r)}
          /\ pc[r] \in {"discovery", "store"} =>
                (Len(published[r]) = 1 /\ published[r][1].topic = ExpectedKey(r))
          /\ pc[r] = "store" => Marked(ExpectedKey(r))
          /\ pc[r] = "publishing" =>
                published[r][Len(published[r])].topic = ExpectedChannel(r)
          /\ (pc[r] = "lock" /\ Marked(ExpectedKey(r))) =>
                ~ENABLED ReqPublishDiscovery(r)
          /\ (pc[r] = "lock" /\ ~Marked(ExpectedKey(r))) =>
                ~ENABLED ReqSkipDiscovery(r)
    /\ \A key \in DOMAIN discoveryTopics \cup DOMAIN discoveryMessages :
          \E r \in Reqs : Received(r) /\ key = ExpectedKey(r)

\* A request with topic=mutedeck published discovery; a request without a
\* topic parameter then published only its status, to mutedeck2mqtt/mutedeck.
C11_Witness ==
    \E r, q \in Reqs :
        /\ request[r].topic = "mutedeck" /\ request[r].prefix = "office"
        /\ Len(published[r]) >= 1
        /\ published[r][1] =
              [topic |-> "homeassistant/device/mutedeck2mqtt_device_mutedeck/config",
               payload |-> published[r][1].payload, result |-> "ok"]
        /\ pc[q] = "done" /\ Valid(q) /\ request[q].topic = "" /\ request[q].prefix = ""
        /\ Len(published[q]) = 1
        /\ published[q][1].topic = "mutedeck2mqtt/mutedeck"
        /\ published[q][1].result = "ok"

\* Reading a published status payload back, as its subscriber does: the
\* escapes json.Marshal writes are undone, and a value's JSON text gives its
\* type.
JSONUnescapes == ("003c" :> "<") @@ ("003e" :> ">") @@ ("0026" :> "&")
RECURSIVE UnescapeFrom(_, _, _)
UnescapeFrom(text, i, last) ==
    IF i > last THEN ""
    ELSE IF SubSeq(text, i, i) # "\\"
         THEN SubSeq(text, i, i) \o UnescapeFrom(text, i + 1, last)
         ELSE IF SubSeq(text, i + 1, i + 1) = "u"
              THEN JSONUnescapes[SubSeq(text, i + 2, i + 5)]
                   \o UnescapeFrom(text, i + 6, last)
              ELSE SubSeq(text, i + 1, i + 1) \o UnescapeFrom(text, i + 2, last)
UnmarshalValue(text) ==
    IF SubSeq(text, 1, 1) = "\""
    THEN [t |-> "string", s |-> UnescapeFrom(text, 2, Len(text) - 1)]
    ELSE IF text \in {"true", "false"}
         THEN [t |-> "bool", s |-> text]
         ELSE [t |-> "float64", s |-> text]
\* The members of the status payload a handler published.
StatusMembers(r) == published[r][Len(published[r])].payload.json

\* C12: the status payload a handler publishes has one member for each key
\* of the decoded request body and no other; each member's value is the
\* body's value for that key, except that a control that is a string is
\* replaced by its label; a control that is not a string and keys beyond
\* the required six are published as they came.
C12_StatusPayloadIsInput ==
    \A r \in Reqs :
        HasStatus(r) =>
            /\ Valid(r)
            /\ {StatusMembers(r)[i].key : i \in DOMAIN StatusMembers(r)}
                  = DOMAIN request[r].body
            /\ Len(StatusMembers(r)) = Cardinality(DOMAIN request[r].body)
            /\ \A i \in DOMAIN StatusMembers(r) :
                  LET k == StatusMembers(r)[i].key
                      v == UnmarshalValue(StatusMembers(r)[i].value)
                  IN  IF k = "control" /\ request[r].body[k].t = "string"
                      THEN v = [t |-> "string",
                                s |-> getPlatformName(request[r].body[k].s)]
                      ELSE v = request[r].body[k]

\* A body with a seventh key, whose value begins with "zoom", was published
\* with that key untouched and its control replaced.
C12_Witness ==
    /\ HasStatus(1)
    /\ DOMAIN request[1].body = Fields \cup {"extra"}
    /\ request[1].body["extra"] = [t |-> "string", s |-> "zoom-x"]
    /\ Len(StatusMembers(1)) = 7
    /\ StatusMembers(1)[3] = [key |-> "extra", value |-> "\"zoom-x\""]
    /\ StatusMembers(1)[2] = [key |-> "control", value |-> "\"Zoom\""]

\* C13: the control of a valid request, when it is a string, becomes "Zoom"
\* if it begins with "zoom", else "Teams" if it begins with "teams", else
\* "Webex", "StreamYard" or "Google Meet" if it is exactly "webex",
\* "streamyard" or "google-meet", else its title-cased form; a control that
\* is not a string is left as it came.
Begins(s, p) == Len(s) >= Len(p) /\ \A i \in 1..Len(p) : SubSeq(s, i, i) = SubSeq(p, i, i)
ExpectedLabel(s) ==
    IF Begins(s, "zoom") THEN "Zoom"
    ELSE IF Begins(s, "teams") THEN "Teams"
    ELSE IF s = "webex" THEN "Webex"
    ELSE IF s = "streamyard" THEN "StreamYard"
    ELSE IF s = "google-meet" THEN "Google Meet"
    ELSE toTitleCase(s)
C13_ControlNormalization ==
    \A r \in Reqs :
        Valid(r) =>
            /\ DOMAIN data[r] = DOMAIN request[r].body
            /\ IF request[r].body["control"].t = "string"
               THEN data[r]["control"] =
                       [t |-> "string", s |-> ExpectedLabel(request[r].body["control"].s)]
               ELSE data[r]["control"] = request[r].body["control"]
            /\ request[r].body["control"].s \in {"zoom-meeting", "zoom", "zoomteams"} =>
                  data[r]["control"].s = "Zoom"
            /\ request[r].body["control"].s = "my_app" => data[r]["control"].s = "My App"
            /\ request[r].body["control"].s = "google_meet" =>
                  data[r]["control"].s = "Google Meet"
            /\ request[r].body["control"].s = "ZOOM" => data[r]["control"].s = "Zoom"

\* "webex-app" is not exactly "webex": it went to the fallback.
C13_Witness ==
    /\ pc[1] = "publishing"
    /\ request[1].body["control"] = [t |-> "string", s |-> "webex-app"]
    /\ data[1]["control"] = [t |-> "string", s |-> "Webex-App"]

\* C14: a handler that is about to publish, is publishing or has published
\* its status finds its topic's discovery key marked sent, with a stored
\* document; if the handler published discovery itself, that publish came
\* first and succeeded, and no status publish exists while the handler's
\* discovery step is still under way.
C14_StatusAfterDiscovery ==
    \A r \in Reqs :
        /\ (pc[r] \in {"status", "publishing"} \/ HasStatus(r)) =>
              /\ Marked(discoveryTopic(r))
              /\ Stored(discoveryTopic(r))
              /\ DiscoveryResult(r) \in {"none", "ok"}
        /\ (HasStatus(r) /\ HasDiscovery(r)) =>
              /\ Len(published[r]) = 2
              /\ published[r][1].result = "ok"
        /\ pc[r] \in {"lock", "discovery", "store"} => ~HasStatus(r)
        /\ response[r].code = 200 => (HasStatus(r) /\ StatusResult(r) = "ok")

\* One handler published discovery and then its status; another, for the
\* same topic, published its status on the strength of the first's mark.
C14_Witness ==
    \E r, q \in Reqs :
        /\ r # q
        /\ discoveryTopic(r) = discoveryTopic(q)
        /\ Len(published[r]) = 2 /\ DiscoveryResult(r) = "ok" /\ HasStatus(r)
        /\ Len(published[q]) = 1 /\ HasStatus(q) /\ StatusResult(q) = "pending"

\* C15: in every step, of a handler or of the callback, each key of either
\* map is still a key afterwards, a key marked sent is still marked, and a
\* stored document is still stored and the same.
C15_CacheMonotonic ==
    [][/\ DOMAIN discoveryTopics \subseteq DOMAIN discoveryTopics'
       /\ DOMAIN discoveryMessages \subseteq DOMAIN discoveryMessages'
       /\ \A k \in DOMAIN discoveryTopics :
             discoveryTopics[k] => discoveryTopics'[k]
       /\ \A k \in DOMAIN discoveryMessages :
             discoveryMessages'[k] = discoveryMessages[k]]_vars

\* Two topics are marked and stored, and a replay has gone through both.
C15_Witness ==
    /\ Cardinality(DOMAIN discoveryMessages) = 2
    /\ DOMAIN discoveryTopics = DOMAIN discoveryMessages
    /\ \A k \in DOMAIN discoveryTopics : discoveryTopics[k]
    /\ pc[Listener] = "loop"
    /\ todo = {}
    /\ Len(published[Listener]) = 2
    /\ \A r \in Reqs : pc[r] = "done"

\* C16: every publish of a replay goes to a stored key and carries the
\* document stored under it, which is the document of the one handler
\* discovery publish for that key that succeeded; a stored document is the
\* one its handler published, whatever requests came after.
C16_ReplayCarriesStoredDocument ==
    /\ \A i \in DOMAIN published[Listener] :
          LET c == published[Listener][i]
          IN  /\ Stored(c.topic)
              /\ c.payload = [json |-> discoveryMessages[c.topic]]
              /\ \E r \in Reqs :
                    /\ DiscoveryResult(r) = "ok"
                    /\ published[r][1].topic = c.topic
                    /\ published[r][1].payload = c.payload
    /\ \A k \in DOMAIN discoveryMessages :
          \E r \in Reqs :
              /\ DiscoveryResult(r) = "ok"
              /\ published[r][1].topic = k
              /\ published[r][1].payload = [json |-> discoveryMessages[k]]

\* A document published for prefix office is being replayed although a
\* request for the same topic with the default prefix has been served since.
C16_Witness ==
    \E r, q \in Reqs :
        /\ r # q
        /\ discoveryTopic(r) = discoveryTopic(q)
        /\ Prefix(r) = "office" /\ Prefix(q) = "mutedeck2mqtt"
        /\ DiscoveryResult(r) = "ok"
        /\ pc[q] = "done" /\ Len(published[q]) = 1 /\ StatusResult(q) = "ok"
        /\ pc[Listener] = "resending"
        /\ published[Listener][1].topic = discoveryTopic(r)
        /\ published[Listener][1].payload = published[r][1].payload
        /\ published[Listener][1].payload.json.stat_t = "office/mutedeck"

\* C17: while resendDiscoveryMessages runs it holds the mutex; whatever the
\* outcome of a publish, the keys still to visit stay to visit; any of them
\* may be the next; the function returns only when none is left, having
\* published to every key stored when it took the mutex, and releases the
\* mutex as it returns; and, every token completing, it does return.
C17_ReplayState ==
    /\ InReplay => mu
    /\ pc[Listener] = "loop" =>
          /\ \A k \in todo : ENABLED ResendPublish(k)
          /\ (todo = {}) <=> ENABLED ResendReturn
C17_ReplayStep ==
    /\ (pc[Listener] = "resending" /\ pc'[Listener] # "resending") =>
          (pc'[Listener] = "loop" /\ todo' = todo /\ mu')
    /\ (InReplay /\ ~InReplay') =>
          /\ todo = {}
          /\ Resent = DOMAIN atLock[2]
          /\ pc'[Listener] = "idle"
          /\ ~mu'
C17_ReplayRunsToTheEnd ==
    /\ []C17_ReplayState
    /\ [][C17_ReplayStep]_vars
    /\ InReplay ~> (pc[Listener] = "idle")

\* The first publish of a replay failed; the second key was published all
\* the same, and the replay is about to return.
C17_Witness ==
    /\ pc[Listener] = "loop"
    /\ todo = {}
    /\ Len(published[Listener]) = 2
    /\ published[Listener][1].result = "failed"
    /\ published[Listener][2].result = "ok"
    /\ published[Listener][1].topic = DiscoveryTopic("mutedeck")
    /\ mu

\* C18: the discovery document a handler publishes, and the one it stores,
\* has exactly the six entities {Topic}_call, _control, _mute, _record,
\* _share and _video; the state topic of each and of the document itself is
\* {RoutingPrefix}/{Topic}; call, record, share and video read OFF when the
\* value is not 'active' and ON otherwise, mute reads OFF when it is
\* 'active' and ON otherwise, and control alone is a select with the six
\* options and the value passed through.
ExpectedTemplate(field) ==
    IF field = "control" THEN "{{ value_json.control }}"
    ELSE IF field = "mute" THEN "{{ value_json.mute == 'active' and 'OFF' or 'ON' }}"
    ELSE "{{ value_json." \o field \o " != 'active' and 'OFF' or 'ON' }}"
WellFormedDocument(doc, topic, channel) ==
    /\ DOMAIN doc.cmps = {topic \o "_" \o f :
                            f \in {"call", "control", "mute", "record", "share", "video"}}
    /\ Cardinality(DOMAIN doc.cmps) = 6
    /\ doc.stat_t = channel
    /\ \A f \in {"call", "control", "mute", "record", "share", "video"} :
          LET e == doc.cmps[topic \o "_" \o f]
          IN  /\ e.stat_t = channel
              /\ e.val_tpl = ExpectedTemplate(f)
              /\ IF f = "control"
                 THEN /\ e.options = <<"Zoom", "Teams", "Google Meet",
                                       "StreamYard", "Webex", "System">>
                      /\ e.p = "select"
                 ELSE /\ e.options = <<>>
                      /\ e.p = "binary_sensor"
C18_DiscoveryDocument ==
    \A r \in Reqs :
        /\ HasDiscovery(r) =>
              WellFormedDocument(published[r][1].payload.json,
                                 ExpectedTopic(r), ExpectedChannel(r))
        /\ (pc[r] = "status" /\ DiscoveryResult(r) = "ok") =>
              WellFormedDocument(discoveryMessages[ExpectedKey(r)],
                                 ExpectedTopic(r), ExpectedChannel(r))

\* The document for topic my_room and prefix office has been published.
C18_Witness ==
    /\ request[1].topic = "my_room" /\ request[1].prefix = "office"
    /\ DiscoveryResult(1) = "ok"
    /\ "my_room_mute" \in DOMAIN published[1][1].payload.json.cmps
    /\ published[1][1].payload.json.cmps["my_room_share"].stat_t = "office/my_room"
    /\ published[1][1].payload.json.cmps["my_room_mute"].val_tpl
          = "{{ value_json.mute == 'active' and 'OFF' or 'ON' }}"
    /\ published[1][1].payload.json.dev.name = "My Room"

\* C19: when a handler's discovery publish for a topic has succeeded and its
\* document is stored, a handler for the same topic with another prefix has
\* no discovery publish pending or succeeded and publishes its status to
\* its own {prefix}/{topic}; the document stored under the topic's key, and
\* every replay of it, announces the first handler's {prefix}/{topic}.
C19_KeyIgnoresPrefix ==
    \A r, q \in Reqs :
        ( /\ r # q
          /\ Received(q)
          /\ ExpectedTopic(r) = ExpectedTopic(q)
          /\ ExpectedChannel(r) # ExpectedChannel(q)
          /\ Len(published[r]) >= 1
          /\ published[r][1].topic = ExpectedKey(r)
          /\ published[r][1].result = "ok"
          /\ pc[r] \notin {"discovery", "store"} )
        => /\ \A i \in DOMAIN published[q] :
                 \/ published[q][i].topic = ExpectedChannel(q)
                 \/ published[q][i].result = "failed"
           /\ pc[q] = "lock" => ~ENABLED ReqPublishDiscovery(q)
           /\ Stored(ExpectedKey(q))
           /\ discoveryMessages[ExpectedKey(q)].stat_t = ExpectedChannel(r)
           /\ \A k \in DOMAIN discoveryMessages[ExpectedKey(q)].cmps :
                 discoveryMessages[ExpectedKey(q)].cmps[k].stat_t = ExpectedChannel(r)
           /\ \A i \in DOMAIN published[Listener] :
                 published[Listener][i].topic = ExpectedKey(q) =>
                     published[Listener][i].payload.json.stat_t = ExpectedChannel(r)

\* Discovery went out for office/mutedeck; a request with the default prefix
\* then published only to mutedeck2mqtt/mutedeck, and a replay after it has
\* announced office/mutedeck again.
C19_Witness ==
    \E r, q \in Reqs :
        /\ request[r].topic = "mutedeck" /\ request[r].prefix = "office"
        /\ request[q].topic = "" /\ request[q].prefix = ""
        /\ pc[r] = "done" /\ Len(published[r]) = 2
        /\ published[r][1].result = "ok"
        /\ response[q].code = 200
        /\ Len(published[q]) = 1
        /\ published[q][1].topic = "mutedeck2mqtt/mutedeck"
        /\ pc[Listener] = "loop" /\ todo = {}
        /\ Len(published[Listener]) = 1
        /\ published[Listener][1].result = "ok"
        /\ published[Listener][1].payload.json.stat_t = "office/mutedeck"

\* C20: whenever the mutex is free, and whenever the callback holds it, the
\* keys marked sent are exactly the keys with a stored document, and no key
\* is present unmarked; while a handler holds the mutex the two sets differ
\* at most by that handler's key, marked and about to be stored.  So a
\* replay, which takes the mutex first, visits exactly the keys for which
\* handlers skip discovery.
MarkedKeys == {k \in DOMAIN discoveryTopics : discoveryTopics[k]}
C20_MapsConsistent ==
    /\ (~mu \/ InReplay) => MarkedKeys = DOMAIN discoveryMessages
    /\ DOMAIN discoveryMessages \subseteq MarkedKeys
    /\ \A k \in MarkedKeys \ DOMAIN discoveryMessages :
          \E r \in Reqs : pc[r] = "store" /\ discoveryTopic(r) = k
    /\ InReplay => (Resent \cup todo = MarkedKeys)
    /\ \A r \in Reqs :
          (pc[r] = "lock" /\ ~mu) =>
              (ENABLED ReqSkipDiscovery(r) <=> Stored(discoveryTopic(r)))

\* The mutex is free, one key is marked and stored; a handler for that key
\* and the callback are both about to take the mutex.
C20_Witness ==
    \E r \in Reqs :
        /\ ~mu
        /\ pc[r] = "lock"
        /\ Marked(discoveryTopic(r))
        /\ Stored(discoveryTopic(r))
        /\ pc[Listener] = "lock"

\* C21: the mutex is held only by a goroutine that is still inside its
\* locked section: a handler that leaves it, by a failed or a successful
\* discovery publish, and a replay that returns, release it, and a handler
\* that finds its topic sent never keeps it.  A request has no response
\* until its handler is over and then has one that never changes, with
\* status 200, 400 or 500.  And, every goroutine running on and every token
\* completing, every request received is answered and every call of the
\* callback returns.
C21_LockHeldByRunning ==
    /\ mu => \E p \in Goroutines : InCS(p)
    /\ \A r \in Reqs :
          /\ pc[r] = "done" <=> response[r].code # 0
          /\ response[r].code \in {0, 200, 400, 500}
          /\ (pc[r] = "lock" /\ ~mu) =>
                ~ENABLED (ReqSkipDiscovery(r) /\ mu')
C21_ReleaseStep ==
    /\ \A p \in Goroutines : (InCS(p) /\ ~InCS(p)') => ~mu'
    /\ \A r \in Reqs : response[r].code # 0 => response'[r] = response[r]
C21_LockReleasedAndAnswered ==
    /\ []C21_LockHeldByRunning
    /\ [][C21_ReleaseStep]_vars
    /\ \A r \in Reqs : Received(r) ~> (pc[r] = "done")
    /\ (pc[Listener] # "idle") ~> (pc[Listener] = "idle")

\* One request got 500 for a failed discovery publish, the other was then
\* served; a replay has run and returned; the mutex is free.
C21_Witness ==
    \E r, q \in Reqs :
        /\ response[r].code = 500 /\ DiscoveryResult(r) = "failed"
        /\ response[q].code = 200 /\ DiscoveryResult(q) = "ok"
        /\ discoveryTopic(r) = discoveryTopic(q)
        /\ pc[Listener] = "idle" /\ msg = "online"
        /\ ~mu

====
